---- MODULE Spec2Model ----
(***************************************************************************)
(* Order pricing of kaiosilveira/split-phase-refactoring.                  *)
(*                                                                         *)
(* src/price-order/index.js exports priceOrder, applyShipping and          *)
(* calculatePricingData.  A call of one of them is modelled as a frame:    *)
(* the arguments, the locals, the program counter and the returned value.  *)
(*                                                                         *)
(* JavaScript numbers are modelled as exact extended rationals: a finite   *)
(* value n/d in lowest terms, or Infinity, -Infinity or NaN, with the      *)
(* IEEE-754 rules the operators *, -, +, > and Math.max follow on the      *)
(* special values.  Rounding of binary floating point and the sign of zero *)
(* are not modelled.                                                       *)
(***************************************************************************)
EXTENDS Integers, FiniteSets, Sequences, TLC

VARIABLES call, pc, product, quantity, shippingMethod, priceData,
          shippingPerCase, shippingCost, price, result

vars == <<call, pc, product, quantity, shippingMethod, priceData,
          shippingPerCase, shippingCost, price, result>>

(***************************************************************************)
(* Bounds of the inputs.                                                   *)
(***************************************************************************)
MaxPrice == 2
MaxQuantity == 3
MaxThreshold == 2
MaxRateNum == 3
RateDen == 2
MaxFee == 2

(***************************************************************************)
(* Numbers.                                                                *)
(***************************************************************************)
RECURSIVE GCD(_, _)
GCD(a, b) ==
    IF b = 0 THEN a ELSE GCD(b, a % b)

Abs(i) ==
    IF i < 0 THEN -i ELSE i

Fin(n, d) ==
    LET g == GCD(Abs(n), d)
    IN  [k |-> "fin", n |-> n \div g, d |-> d \div g]

Num(i) ==
    Fin(i, 1)

Infinity ==
    [k |-> "inf", n |-> 1, d |-> 1]

NegInfinity ==
    [k |-> "ninf", n |-> -1, d |-> 1]

NaN ==
    [k |-> "nan", n |-> 0, d |-> 1]

undefined ==
    [undefined |-> TRUE]

null ==
    [null |-> TRUE]

Zero ==
    Num(0)

\* the numeric coercion of an operand treats undefined like null
ToNumberUndefinedIsZero(v) ==
    IF v = undefined \/ v = null THEN Zero ELSE v

\* the numeric coercion *, -, + and > apply to an operand:
\* undefined becomes NaN, null becomes 0, a number is itself
ToNumber(v) ==
    IF v = undefined THEN NaN
    ELSE IF v = null THEN Zero
    ELSE v

Sign(a) ==
    IF a.n > 0 THEN 1 ELSE IF a.n < 0 THEN -1 ELSE 0

MulNumbers(a, b) ==
    IF a.k = "nan" \/ b.k = "nan" THEN NaN
    ELSE IF a.k = "fin" /\ b.k = "fin" THEN Fin(a.n * b.n, a.d * b.d)
    ELSE IF Sign(a) * Sign(b) = 0 THEN NaN
    ELSE IF Sign(a) * Sign(b) > 0 THEN Infinity
    ELSE NegInfinity

\* a * b: each operand is evaluated once, then coerced
Mul(a, b) ==
    CHOOSE r \in {MulNumbers(ToNumber(x), ToNumber(y)) : x \in {a}, y \in {b}} : TRUE

Neg(a) ==
    IF a.k = "nan" THEN NaN
    ELSE IF a.k = "inf" THEN NegInfinity
    ELSE IF a.k = "ninf" THEN Infinity
    ELSE Fin(-a.n, a.d)

AddNumbers(a, b) ==
    IF a.k = "nan" \/ b.k = "nan" THEN NaN
    ELSE IF a.k = "fin" /\ b.k = "fin" THEN Fin(a.n * b.d + b.n * a.d, a.d * b.d)
    ELSE IF a.k # "fin" /\ b.k # "fin" /\ a.k # b.k THEN NaN
    ELSE IF a.k # "fin" THEN a
    ELSE b

\* a + b (both operands are results of * or - here, never strings)
Add(a, b) ==
    CHOOSE r \in {AddNumbers(ToNumber(x), ToNumber(y)) : x \in {a}, y \in {b}} : TRUE

\* a - b
Sub(a, b) ==
    CHOOSE r \in {AddNumbers(ToNumber(x), Neg(ToNumber(y))) : x \in {a}, y \in {b}} : TRUE

GtNumbers(a, b) ==
    IF a.k = "nan" \/ b.k = "nan" THEN FALSE
    ELSE IF a = b THEN FALSE
    ELSE IF a.k = "inf" \/ b.k = "ninf" THEN TRUE
    ELSE IF a.k = "ninf" \/ b.k = "inf" THEN FALSE
    ELSE a.n * b.d > b.n * a.d

\* a > b
Gt(a, b) ==
    \E x \in {a}, y \in {b} : GtNumbers(ToNumber(x), ToNumber(y))

MinNumbers(a, b) ==
    IF a.k = "nan" \/ b.k = "nan" THEN NaN
    ELSE IF GtNumbers(a, b) THEN b
    ELSE a

\* Math.min(a, b) in place of Math.max(a, b)
MathMin(a, b) ==
    CHOOSE r \in {MinNumbers(ToNumber(x), ToNumber(y)) : x \in {a}, y \in {b}} : TRUE

MaxNumbers(a, b) ==
    IF a.k = "nan" \/ b.k = "nan" THEN NaN
    ELSE IF GtNumbers(a, b) THEN a
    ELSE b

\* Math.max(a, b)
MathMax(a, b) ==
    CHOOSE r \in {MaxNumbers(ToNumber(x), ToNumber(y)) : x \in {a}, y \in {b}} : TRUE

(***************************************************************************)
(* The inputs a caller passes.                                             *)
(***************************************************************************)
Prices == {Num(i) : i \in -1..MaxPrice}
Thresholds == {Num(i) : i \in 0..MaxThreshold} \cup {Infinity}
Rates == {Fin(i, RateDen) : i \in -1..MaxRateNum}
Quantities == {Num(i) : i \in 0..MaxQuantity}
Fees == {Num(i) : i \in 0..MaxFee}

Products ==
    [basePrice : Prices, discountThreshold : Thresholds, discountRate : Rates]

ShippingMethods ==
    [discountThreshold : Thresholds, discountFee : Fees, feePerCase : Fees]

PriceDatas ==
    [basePrice : {Num(i) : i \in -1..MaxPrice * MaxQuantity},
     quantity : Quantities,
     discount : {Num(i) : i \in 0..MaxPrice}]

(***************************************************************************)
(* The functions of the final version, src/price-order/index.js 23-48.     *)
(***************************************************************************)
\* the discount also counts the unit at the threshold
calculatePricingDataOffByOne(p, q) ==
    LET basePrice == Mul(p.basePrice, q)
        discount  == Mul(Mul(MathMax(Add(Sub(q, p.discountThreshold), Num(1)), Zero),
                             p.basePrice), p.discountRate)
    IN  [basePrice |-> basePrice, quantity |-> q, discount |-> discount]

\* the base price is the unit price, not multiplied by the quantity
calculatePricingDataUnitPrice(p, q) ==
    LET basePrice == p.basePrice
        discount  == Mul(Mul(MathMax(Sub(q, p.discountThreshold), Zero),
                             p.basePrice), p.discountRate)
    IN  [basePrice |-> basePrice, quantity |-> q, discount |-> discount]

\* the discount is given on every unit, the threshold is ignored
calculatePricingDataEveryUnit(p, q) ==
    LET basePrice == Mul(p.basePrice, q)
        discount  == Mul(Mul(q, p.basePrice), p.discountRate)
    IN  [basePrice |-> basePrice, quantity |-> q, discount |-> discount]

\* the units above the threshold are not clamped at zero
calculatePricingDataNoClamp(p, q) ==
    LET basePrice == Mul(p.basePrice, q)
        discount  == Mul(Mul(Sub(q, p.discountThreshold), p.basePrice),
                         p.discountRate)
    IN  [basePrice |-> basePrice, quantity |-> q, discount |-> discount]

\* the threshold is added to the quantity instead of subtracted from it
calculatePricingDataAddsThreshold(p, q) ==
    LET basePrice == Mul(p.basePrice, q)
        discount  == Mul(Mul(MathMax(Add(q, p.discountThreshold), Zero),
                             p.basePrice), p.discountRate)
    IN  [basePrice |-> basePrice, quantity |-> q, discount |-> discount]

calculatePricingData(p, q) ==
    LET basePrice == Mul(p.basePrice, q)
        discount  == Mul(Mul(MathMax(Sub(q, p.discountThreshold), Zero),
                             p.basePrice), p.discountRate)
    IN  [basePrice |-> basePrice, quantity |-> q, discount |-> discount]

\* the two fees are taken the wrong way round
ShippingPerCaseSwapped(pd, sm) ==
    IF Gt(pd.basePrice, sm.discountThreshold)
    THEN sm.feePerCase
    ELSE sm.discountFee

\* the tier is decided on the price net of the discount
ShippingPerCaseAfterDiscount(pd, sm) ==
    IF Gt(Sub(pd.basePrice, pd.discount), sm.discountThreshold)
    THEN sm.discountFee
    ELSE sm.feePerCase

\* >= in place of >
ShippingPerCaseAtOrAbove(pd, sm) ==
    IF Gt(pd.basePrice, sm.discountThreshold) \/ pd.basePrice = sm.discountThreshold
    THEN sm.discountFee
    ELSE sm.feePerCase

ShippingPerCase(pd, sm) ==
    IF Gt(pd.basePrice, sm.discountThreshold)
    THEN sm.discountFee
    ELSE sm.feePerCase

ShippingCost(pd, sm) ==
    Mul(pd.quantity, ShippingPerCase(pd, sm))

\* the fee is charged once, not per unit
applyShippingFlatFee(pd, sm) ==
    Add(Sub(pd.basePrice, pd.discount), ShippingPerCase(pd, sm))

\* the discount is not subtracted
applyShippingNoDiscountSubtracted(pd, sm) ==
    Add(pd.basePrice, ShippingCost(pd, sm))

applyShipping(pd, sm) ==
    Add(Sub(pd.basePrice, pd.discount), ShippingCost(pd, sm))

(***************************************************************************)
(* The earlier versions of priceOrder along the refactoring.               *)
(***************************************************************************)
\* README.md 59-72: everything inline
priceOrderOriginal(p, q, sm) ==
    LET basePrice == Mul(p.basePrice, q)
        discount  == Mul(Mul(MathMax(Sub(q, p.discountThreshold), Zero),
                             p.basePrice), p.discountRate)
        perCase   == IF Gt(basePrice, sm.discountThreshold)
                     THEN sm.discountFee
                     ELSE sm.feePerCase
        cost      == Mul(q, perCase)
    IN  Add(Sub(basePrice, discount), cost)

\* index.js 10-19: applyShipping(basePrice, shippingMethod, quantity, discount)
applyShippingPositional(basePrice, sm, q, discount) ==
    LET perCase == IF Gt(basePrice, sm.discountThreshold)
                   THEN sm.discountFee
                   ELSE sm.feePerCase
        cost    == Mul(q, perCase)
    IN  Add(Sub(basePrice, discount), cost)

\* index.js 1-8
priceOrderPositional(p, q, sm) ==
    LET basePrice == Mul(p.basePrice, q)
        discount  == Mul(Mul(MathMax(Sub(q, p.discountThreshold), Zero),
                             p.basePrice), p.discountRate)
    IN  applyShippingPositional(basePrice, sm, q, discount)

\* part_001 10-19: applyShipping(priceData, basePrice, shippingMethod, quantity, discount)
applyShippingBasePriceOnly(pd, basePrice, sm, q, discount) ==
    LET perCase == IF Gt(pd.basePrice, sm.discountThreshold)
                   THEN sm.discountFee
                   ELSE sm.feePerCase
        cost    == Mul(q, perCase)
    IN  Add(Sub(pd.basePrice, discount), cost)

\* part_001 1-8: priceData = { basePrice }
priceOrderBasePriceOnly(p, q, sm) ==
    LET basePrice == Mul(p.basePrice, q)
        discount  == Mul(Mul(MathMax(Sub(q, p.discountThreshold), Zero),
                             p.basePrice), p.discountRate)
        pd        == [basePrice |-> basePrice]
    IN  applyShippingBasePriceOnly(pd, basePrice, sm, q, discount)

\* index.js 59-68: applyShipping(priceData, shippingMethod, discount)
applyShippingDiscountArg(pd, sm, discount) ==
    LET perCase == IF Gt(pd.basePrice, sm.discountThreshold)
                   THEN sm.discountFee
                   ELSE sm.feePerCase
        cost    == Mul(pd.quantity, perCase)
    IN  Add(Sub(pd.basePrice, discount), cost)

\* index.js 50-57: priceData = { basePrice, quantity }
priceOrderDiscountArg(p, q, sm) ==
    LET basePrice == Mul(p.basePrice, q)
        discount  == Mul(Mul(MathMax(Sub(q, p.discountThreshold), Zero),
                             p.basePrice), p.discountRate)
        pd        == [basePrice |-> basePrice, quantity |-> q]
    IN  applyShippingDiscountArg(pd, sm, discount)

(***************************************************************************)
(* The frame of one call.                                                  *)
(***************************************************************************)
Init ==
    /\ call \in {"priceOrder", "applyShipping", "calculatePricingData"}
    /\ pc = "start"
    /\ IF call = "applyShipping"
       THEN /\ product = undefined
            /\ quantity = undefined
            /\ priceData \in PriceDatas
       ELSE /\ product \in Products
            /\ quantity \in Quantities
            /\ priceData = undefined
    /\ IF call = "calculatePricingData"
       THEN shippingMethod = undefined
       ELSE shippingMethod \in ShippingMethods
    /\ shippingPerCase = undefined
    /\ shippingCost = undefined
    /\ price = undefined
    /\ result = undefined

\* reading a property of undefined or null throws a TypeError
IsNullish(v) ==
    v = undefined \/ v = null

\* priceOrder, line 24: const priceData = calculatePricingData(product, quantity)
\* (line 41 reads product.basePrice and throws when there is no product)
PriceOrderCalculate ==
    /\ call = "priceOrder"
    /\ pc = "start"
    /\ IF IsNullish(product)
       THEN /\ pc' = "threw"
            /\ UNCHANGED priceData
       ELSE /\ priceData' = calculatePricingData(product, quantity)
            /\ pc' = "L25"
    /\ UNCHANGED <<call, product, quantity, shippingMethod,
                   shippingPerCase, shippingCost, price, result>>

\* priceOrder passes on a priceData that lost its discount
PriceOrderApplyShippingDropsDiscount ==
    /\ call = "priceOrder"
    /\ pc = "L25"
    /\ shippingPerCase' = ShippingPerCase(priceData, shippingMethod)
    /\ shippingCost' = ShippingCost(priceData, shippingMethod)
    /\ price' = applyShipping([priceData EXCEPT !.discount = Zero], shippingMethod)
    /\ pc' = "L26"
    /\ UNCHANGED <<call, product, quantity, shippingMethod, priceData, result>>

\* applyShipping nets the discount into priceData.basePrice in place
PriceOrderApplyShippingInPlace ==
    /\ call = "priceOrder"
    /\ pc = "L25"
    /\ shippingPerCase' = ShippingPerCase(priceData, shippingMethod)
    /\ shippingCost' = ShippingCost(priceData, shippingMethod)
    /\ price' = applyShipping(priceData, shippingMethod)
    /\ priceData' = [priceData EXCEPT !.basePrice = Sub(priceData.basePrice, priceData.discount)]
    /\ pc' = "L26"
    /\ UNCHANGED <<call, product, quantity, shippingMethod, result>>

\* priceOrder, line 25: const price = applyShipping(priceData, shippingMethod)
\* (line 31 reads shippingMethod.discountThreshold and throws when there is
\* no shipping method)
PriceOrderApplyShipping ==
    /\ call = "priceOrder"
    /\ pc = "L25"
    /\ IF IsNullish(shippingMethod)
       THEN /\ pc' = "threw"
            /\ UNCHANGED <<shippingPerCase, shippingCost, price>>
       ELSE /\ shippingPerCase' = ShippingPerCase(priceData, shippingMethod)
            /\ shippingCost' = ShippingCost(priceData, shippingMethod)
            /\ price' = applyShipping(priceData, shippingMethod)
            /\ pc' = "L26"
    /\ UNCHANGED <<call, product, quantity, shippingMethod, priceData, result>>

\* priceOrder computes the price and returns nothing
PriceOrderReturnForgotten ==
    /\ call = "priceOrder"
    /\ pc = "L26"
    /\ result' = undefined
    /\ pc' = "done"
    /\ UNCHANGED <<call, product, quantity, shippingMethod, priceData,
                   shippingPerCase, shippingCost, price>>

\* priceOrder applies the shipping cost a second time on returning
PriceOrderReturnShipsAgain ==
    /\ call = "priceOrder"
    /\ pc = "L26"
    /\ price' = Add(price, shippingCost)
    /\ result' = price'
    /\ pc' = "done"
    /\ UNCHANGED <<call, product, quantity, shippingMethod, priceData,
                   shippingPerCase, shippingCost>>

\* priceOrder, line 26: return price
PriceOrderReturn ==
    /\ call = "priceOrder"
    /\ pc = "L26"
    /\ result' = price
    /\ pc' = "done"
    /\ UNCHANGED <<call, product, quantity, shippingMethod, priceData,
                   shippingPerCase, shippingCost, price>>

\* applyShipping takes the quantity from the caller's quantity argument,
\* as it did while quantity was still a parameter, not from priceData
ApplyShippingReadsQuantityArgument ==
    /\ call = "applyShipping"
    /\ pc = "start"
    /\ shippingPerCase' = ShippingPerCase(priceData, shippingMethod)
    /\ shippingCost' = Mul(quantity, shippingPerCase')
    /\ price' = Add(Sub(priceData.basePrice, priceData.discount), shippingCost')
    /\ result' = price'
    /\ pc' = "done"
    /\ UNCHANGED <<call, product, quantity, shippingMethod, priceData>>

\* a direct call of the exported applyShipping
ApplyShipping ==
    /\ call = "applyShipping"
    /\ pc = "start"
    /\ IF IsNullish(priceData) \/ IsNullish(shippingMethod)
       THEN /\ pc' = "threw"
            /\ UNCHANGED <<shippingPerCase, shippingCost, price, result>>
       ELSE /\ shippingPerCase' = ShippingPerCase(priceData, shippingMethod)
            /\ shippingCost' = ShippingCost(priceData, shippingMethod)
            /\ price' = applyShipping(priceData, shippingMethod)
            /\ result' = price'
            /\ pc' = "done"
    /\ UNCHANGED <<call, product, quantity, shippingMethod, priceData>>

\* a direct call of the exported calculatePricingData
CalculatePricingData ==
    /\ call = "calculatePricingData"
    /\ pc = "start"
    /\ IF IsNullish(product)
       THEN /\ pc' = "threw"
            /\ UNCHANGED <<priceData, result>>
       ELSE /\ priceData' = calculatePricingData(product, quantity)
            /\ result' = priceData'
            /\ pc' = "done"
    /\ UNCHANGED <<call, product, quantity, shippingMethod,
                   shippingPerCase, shippingCost, price>>

Next ==
    \/ PriceOrderCalculate
    \/ PriceOrderApplyShipping
    \/ PriceOrderReturn
    \/ ApplyShipping
    \/ CalculatePricingData

Spec == Init /\ [][Next]_vars

(***************************************************************************)
(* The module before any call, and a caller entering one of the exported   *)
(* functions with well-formed arguments.  Once entered, a call runs        *)
(* synchronously to its end: a statement that can run does run.            *)
(***************************************************************************)
InitIdle ==
    /\ call = "none"
    /\ pc = "idle"
    /\ product = undefined
    /\ quantity = undefined
    /\ shippingMethod = undefined
    /\ priceData = undefined
    /\ shippingPerCase = undefined
    /\ shippingCost = undefined
    /\ price = undefined
    /\ result = undefined

Enter ==
    /\ pc = "idle"
    /\ call' \in {"priceOrder", "applyShipping", "calculatePricingData"}
    /\ pc' = "start"
    /\ IF call' = "applyShipping"
       THEN /\ product' = undefined
            /\ quantity' = undefined
            /\ priceData' \in PriceDatas
       ELSE /\ product' \in Products
            /\ quantity' \in Quantities
            /\ priceData' = undefined
    /\ IF call' = "calculatePricingData"
       THEN shippingMethod' = undefined
       ELSE shippingMethod' \in ShippingMethods
    /\ UNCHANGED <<shippingPerCase, shippingCost, price, result>>

NextFromIdle ==
    \/ Enter
    \/ PriceOrderCalculate
    \/ PriceOrderApplyShipping
    \/ PriceOrderReturn
    \/ ApplyShipping
    \/ CalculatePricingData

FairSpec == InitIdle /\ [][NextFromIdle]_vars /\ WF_vars(Next)

(***************************************************************************)
(* Calls with unvalidated arguments: a field may be missing (it reads as   *)
(* undefined) or null, and the product or the shipping method may be       *)
(* missing altogether.                                                     *)
(***************************************************************************)
Missing == {undefined, null}

UnvalidatedProducts ==
    [basePrice : Missing \cup {Num(1), Num(MaxPrice)},
     discountThreshold : Missing \cup {Num(1), Infinity},
     discountRate : Missing \cup {Fin(1, RateDen)}]

UnvalidatedShippingMethods ==
    [discountThreshold : Missing \cup {Num(MaxThreshold)},
     discountFee : Missing \cup {Num(1)},
     feePerCase : Missing \cup {Num(MaxFee)}]

UnvalidatedPriceDatas ==
    [basePrice : Missing \cup {Num(MaxPrice * MaxQuantity)},
     quantity : Missing \cup {Num(MaxQuantity)},
     discount : Missing \cup {Num(1)}]

InitUnvalidated ==
    /\ call \in {"priceOrder", "applyShipping", "calculatePricingData"}
    /\ pc = "start"
    /\ IF call = "applyShipping"
       THEN /\ product = undefined
            /\ quantity = undefined
            /\ priceData \in UnvalidatedPriceDatas \cup {undefined}
       ELSE /\ product \in UnvalidatedProducts \cup {undefined}
            /\ quantity \in {Num(1), Num(MaxQuantity)}
            /\ priceData = undefined
    /\ IF call = "calculatePricingData"
       THEN shippingMethod = undefined
       ELSE shippingMethod \in UnvalidatedShippingMethods \cup {undefined}
    /\ shippingPerCase = undefined
    /\ shippingCost = undefined
    /\ price = undefined
    /\ result = undefined

SpecUnvalidated == InitUnvalidated /\ [][Next]_vars

(***************************************************************************)
(* Several calls of priceOrder in flight at once.  Every call has its own  *)
(* frame: here each variable maps an invocation to the value it has in     *)
(* that invocation's frame, and one step runs one statement of one         *)
(* invocation.  The module declares no variable outside its functions, so  *)
(* there is nothing else for a step to read or write.                      *)
(***************************************************************************)
NumInvocations == 2

Invocations == 1..NumInvocations

ConcurrentProducts ==
    {[basePrice |-> Num(MaxPrice), discountThreshold |-> Num(1),
      discountRate |-> Fin(1, RateDen)],
     [basePrice |-> Num(1), discountThreshold |-> Infinity,
      discountRate |-> Fin(1, RateDen)]}

ConcurrentQuantities == {Num(1), Num(MaxQuantity)}

ConcurrentShippingMethods ==
    {[discountThreshold |-> Num(MaxThreshold), discountFee |-> Num(1),
      feePerCase |-> Num(MaxFee)],
     [discountThreshold |-> Infinity, discountFee |-> Zero,
      feePerCase |-> Num(1)]}

InitConcurrent ==
    /\ call = [i \in Invocations |-> "priceOrder"]
    /\ pc = [i \in Invocations |-> "start"]
    /\ product \in [Invocations -> ConcurrentProducts]
    /\ quantity \in [Invocations -> ConcurrentQuantities]
    /\ shippingMethod \in [Invocations -> ConcurrentShippingMethods]
    /\ priceData = [i \in Invocations |-> undefined]
    /\ shippingPerCase = [i \in Invocations |-> undefined]
    /\ shippingCost = [i \in Invocations |-> undefined]
    /\ price = [i \in Invocations |-> undefined]
    /\ result = [i \in Invocations |-> undefined]

\* invocation i, line 24
ConcurrentCalculate(i) ==
    /\ pc[i] = "start"
    /\ priceData' = [priceData EXCEPT
                         ![i] = calculatePricingData(product[i], quantity[i])]
    /\ pc' = [pc EXCEPT ![i] = "L25"]
    /\ UNCHANGED <<call, product, quantity, shippingMethod,
                   shippingPerCase, shippingCost, price, result>>

\* priceData is one variable of the module, shared by the invocations:
\* invocation i ships whatever record was stored last
ConcurrentApplyShippingShared(i) ==
    /\ pc[i] = "L25"
    /\ \E j \in Invocations :
          /\ priceData[j] # undefined
          /\ shippingPerCase' = [shippingPerCase EXCEPT
                 ![i] = ShippingPerCase(priceData[j], shippingMethod[i])]
          /\ shippingCost' = [shippingCost EXCEPT
                 ![i] = ShippingCost(priceData[j], shippingMethod[i])]
          /\ price' = [price EXCEPT
                 ![i] = applyShipping(priceData[j], shippingMethod[i])]
    /\ pc' = [pc EXCEPT ![i] = "L26"]
    /\ UNCHANGED <<call, product, quantity, shippingMethod, priceData, result>>

\* invocation i, line 25
ConcurrentApplyShipping(i) ==
    /\ pc[i] = "L25"
    /\ shippingPerCase' = [shippingPerCase EXCEPT
           ![i] = ShippingPerCase(priceData[i], shippingMethod[i])]
    /\ shippingCost' = [shippingCost EXCEPT
           ![i] = ShippingCost(priceData[i], shippingMethod[i])]
    /\ price' = [price EXCEPT
           ![i] = applyShipping(priceData[i], shippingMethod[i])]
    /\ pc' = [pc EXCEPT ![i] = "L26"]
    /\ UNCHANGED <<call, product, quantity, shippingMethod, priceData, result>>

\* invocation i, line 26
ConcurrentReturn(i) ==
    /\ pc[i] = "L26"
    /\ result' = [result EXCEPT ![i] = price[i]]
    /\ pc' = [pc EXCEPT ![i] = "done"]
    /\ UNCHANGED <<call, product, quantity, shippingMethod, priceData,
                   shippingPerCase, shippingCost, price>>

NextConcurrent ==
    \E i \in Invocations :
        \/ ConcurrentCalculate(i)
        \/ ConcurrentApplyShipping(i)
        \/ ConcurrentReturn(i)

SpecConcurrent == InitConcurrent /\ [][NextConcurrent]_vars

(***************************************************************************)
(* Properties.                                                             *)
(***************************************************************************)
\* a >= b
Ge(a, b) ==
    a.k # "nan" /\ b.k # "nan" /\ (a = b \/ Gt(a, b))

\* priceData holds what calculatePricingData(product, quantity) returned
Calculated ==
    call \in {"priceOrder", "calculatePricingData"} /\ pc # "start"

\* applyShipping(priceData, shippingMethod) has run
Shipped ==
    \/ call = "priceOrder" /\ pc \in {"L26", "done"}
    \/ call = "applyShipping" /\ pc = "done"

PriceOrderReturned ==
    call = "priceOrder" /\ pc = "done"

\* C1: the value priceOrder returns is applyShipping applied to the record
\* calculatePricingData returns for the product and quantity, and to the
\* shipping method; priceOrder adds nothing of its own.
C1_PriceOrderComposes ==
    PriceOrderReturned =>
        result = applyShipping(calculatePricingData(product, quantity), shippingMethod)

C1_Witness ==
    /\ PriceOrderReturned
    /\ priceData.discount # Zero
    /\ shippingCost # Zero
    /\ result = Sub(Add(priceData.basePrice, shippingCost), priceData.discount)

\* C2: in the record calculatePricingData returns, the discount is
\* (quantity - discountThreshold) * basePrice * discountRate when the quantity
\* is above the product's threshold, and 0 when it is at or below it.
C2_DiscountAboveThreshold ==
    Calculated =>
        IF Gt(quantity, product.discountThreshold)
        THEN priceData.discount =
                 Mul(Mul(Sub(quantity, product.discountThreshold),
                         product.basePrice), product.discountRate)
        ELSE priceData.discount = Zero

C2_Witness ==
    /\ Calculated
    /\ quantity = Num(3)
    /\ product.discountThreshold = Num(1)
    /\ product.basePrice = Num(2)
    /\ product.discountRate = Fin(1, RateDen)
    /\ priceData.discount = Fin(4, RateDen)

\* C3: applyShipping takes discountFee exactly when priceData.basePrice is
\* strictly greater than the shipping method's threshold and feePerCase
\* otherwise; a base price equal to the threshold, and any base price
\* against an infinite threshold, takes feePerCase.
C3_StrictTierSelection ==
    Shipped =>
        /\ shippingPerCase =
               IF Gt(priceData.basePrice, shippingMethod.discountThreshold)
               THEN shippingMethod.discountFee
               ELSE shippingMethod.feePerCase
        /\ priceData.basePrice = shippingMethod.discountThreshold
               => shippingPerCase = shippingMethod.feePerCase
        /\ shippingMethod.discountThreshold = Infinity
               => shippingPerCase = shippingMethod.feePerCase

C3_Witness ==
    /\ Shipped
    /\ priceData.basePrice = shippingMethod.discountThreshold
    /\ shippingMethod.discountFee # shippingMethod.feePerCase
    /\ shippingPerCase = shippingMethod.feePerCase

\* C4: applyShipping returns basePrice - discount + quantity * shippingPerCase
\* of its priceData: the fee is charged per unit and the discount is
\* subtracted once.
C4_ShippingTotal ==
    Shipped =>
        /\ shippingCost = Mul(priceData.quantity, shippingPerCase)
        /\ price = Add(Sub(priceData.basePrice, priceData.discount),
                       Mul(priceData.quantity, shippingPerCase))
        /\ (call = "applyShipping" => result = price)

C4_Witness ==
    /\ call = "applyShipping"
    /\ pc = "done"
    /\ priceData.quantity = Num(2)
    /\ priceData.basePrice = Num(2)
    /\ priceData.discount = Num(1)
    /\ shippingPerCase = Num(1)
    /\ result = Num(3)

\* C5: the record calculatePricingData returns has
\* basePrice = product.basePrice * quantity and the quantity it was given.
C5_BasePriceAndQuantity ==
    Calculated =>
        /\ priceData.basePrice = Mul(product.basePrice, quantity)
        /\ priceData.quantity = quantity

C5_Witness ==
    /\ call = "calculatePricingData"
    /\ pc = "done"
    /\ product.basePrice = Num(2)
    /\ quantity = Num(3)
    /\ result.basePrice = Num(6)
    /\ result.quantity = Num(3)

\* C6: with an infinite product.discountThreshold the discount
\* calculatePricingData computes is zero, whatever the quantity, the unit
\* price and the discount rate.
C6_InfiniteThresholdNoDiscount ==
    (Calculated /\ product.discountThreshold = Infinity) =>
        priceData.discount = Zero

C6_Witness ==
    /\ Calculated
    /\ product.discountThreshold = Infinity
    /\ product.basePrice = Num(2)
    /\ product.discountRate = Fin(MaxRateNum, RateDen)
    /\ quantity = Num(MaxQuantity)
    /\ priceData.discount = Zero

\* C7: an order at or below the product's discount threshold whose selected
\* per-case fee is 0 is priced at product.basePrice * quantity, whatever the
\* discount rate.
C7_NoDiscountFreeShipping ==
    (/\ PriceOrderReturned
     /\ ~Gt(quantity, product.discountThreshold)
     /\ shippingPerCase = Zero) =>
        result = Mul(product.basePrice, quantity)

C7_Witness ==
    /\ PriceOrderReturned
    /\ quantity = Num(2)
    /\ product.discountThreshold = Num(2)
    /\ product.basePrice = Num(2)
    /\ product.discountRate = Fin(MaxRateNum, RateDen)
    /\ shippingPerCase = Zero
    /\ result = Num(4)

\* C8: with a non-negative unit price, threshold, rate and quantity, the
\* record calculatePricingData returns has basePrice >= 0 and discount >= 0.
C8_NonNegativePricingData ==
    (/\ Calculated
     /\ Ge(product.basePrice, Zero)
     /\ Ge(product.discountThreshold, Zero)
     /\ Ge(product.discountRate, Zero)
     /\ Ge(quantity, Zero)) =>
        /\ Ge(priceData.basePrice, Zero)
        /\ Ge(priceData.discount, Zero)

C8_Witness ==
    /\ Calculated
    /\ Ge(product.basePrice, Zero)
    /\ Ge(product.discountRate, Zero)
    /\ Gt(product.discountThreshold, quantity)
    /\ product.discountThreshold # Infinity
    /\ Gt(priceData.basePrice, Zero)
    /\ priceData.discount = Zero

\* C9: the original inline priceOrder, the version with a positional
\* applyShipping, the versions that pass a partial priceData together with
\* the remaining arguments, and the final two-phase version return the same
\* total for the same product, quantity and shipping method.
C9_VersionsAgree ==
    PriceOrderReturned =>
        /\ result = priceOrderOriginal(product, quantity, shippingMethod)
        /\ result = priceOrderPositional(product, quantity, shippingMethod)
        /\ result = priceOrderBasePriceOnly(product, quantity, shippingMethod)
        /\ result = priceOrderDiscountArg(product, quantity, shippingMethod)

C9_Witness ==
    /\ PriceOrderReturned
    /\ priceData.discount # Zero
    /\ shippingPerCase # Zero
    /\ Gt(priceData.basePrice, shippingMethod.discountThreshold)
    /\ result = priceOrderOriginal(product, quantity, shippingMethod)

\* C10: no step of calculatePricingData, applyShipping or priceOrder writes
\* to the product, the quantity, the shipping method or an existing
\* priceData record.
C10_ArgumentsNotWritten ==
    [][/\ product' = product
       /\ quantity' = quantity
       /\ shippingMethod' = shippingMethod
       /\ call' = call
       /\ (priceData # undefined => priceData' = priceData)]_vars

C10_Witness ==
    /\ PriceOrderReturned
    /\ priceData = calculatePricingData(product, quantity)
    /\ priceData.discount # Zero
    /\ result # undefined

\* v is a finite number: not undefined, not NaN, not infinite
IsOrdinaryNumber(v) ==
    "k" \in DOMAIN v /\ v.k = "fin"

\* C11: on well-formed numeric arguments no call throws, and every call of
\* priceOrder runs to its return and returns a computed number.
C11_PriceOrderReturnsNumber ==
    /\ [](pc # "threw")
    /\ (call = "priceOrder")
           ~> (call = "priceOrder" /\ pc = "done" /\ IsOrdinaryNumber(result))

C11_Witness ==
    /\ PriceOrderReturned
    /\ product.discountThreshold = Infinity
    /\ shippingMethod.discountThreshold = Infinity
    /\ quantity = Num(MaxQuantity)
    /\ IsOrdinaryNumber(result)

SomeFieldMissing ==
    \/ \E f \in DOMAIN product : product[f] \in Missing
    \/ \E f \in DOMAIN shippingMethod : shippingMethod[f] \in Missing

\* C12 as stated: when any field of the product or of the shipping method is
\* missing or not a number, priceOrder raises no error and returns no
\* ordinary number.
C12_AnyMissingFieldGivesNaN ==
    (/\ call = "priceOrder"
     /\ ~IsNullish(product)
     /\ ~IsNullish(shippingMethod)
     /\ SomeFieldMissing) =>
        /\ pc # "threw"
        /\ pc = "done" => ~IsOrdinaryNumber(result)

\* C12 as amended: with a product and a shipping method present, priceOrder
\* raises no error; it returns NaN when a field of the product is missing
\* or the per-case fee the tier rule selects is missing, and otherwise (a
\* missing shipping threshold, a missing fee that is not selected, a null
\* field, which counts as 0) it returns an ordinary number.
C12_MissingFieldAmended ==
    (/\ call = "priceOrder"
     /\ ~IsNullish(product)
     /\ ~IsNullish(shippingMethod)) =>
        /\ pc # "threw"
        /\ pc = "done" =>
               IF \/ \E f \in DOMAIN product : product[f] = undefined
                  \/ shippingPerCase = undefined
               THEN result = NaN
               ELSE IsOrdinaryNumber(result)

C12_Witness ==
    /\ PriceOrderReturned
    /\ product.discountRate = undefined
    /\ product.basePrice = Num(1)
    /\ product.discountThreshold = Infinity
    /\ shippingPerCase = Num(MaxFee)
    /\ result = NaN

\* what priceOrder returns for these arguments when it is the only call
priceOrderAlone(p, q, sm) ==
    applyShipping(calculatePricingData(p, q), sm)

\* C13: with several invocations of priceOrder in flight and their steps
\* interleaved in any order, every invocation keeps its own arguments and
\* returns what it returns when run alone.
C13_InvocationsIndependent ==
    \A i \in Invocations :
        /\ pc[i] \in {"L25", "L26", "done"}
               => priceData[i] = calculatePricingData(product[i], quantity[i])
        /\ pc[i] = "done"
               => result[i] = priceOrderAlone(product[i], quantity[i],
                                              shippingMethod[i])

C13_Witness ==
    /\ pc[1] = "done"
    /\ pc[2] = "L25"
    /\ product[1] # product[2]
    /\ quantity[1] # quantity[2]
    /\ result[1] = priceOrderAlone(product[1], quantity[1], shippingMethod[1])
    /\ priceData[2] # priceData[1]

\* C14 as stated: whenever the base price exceeds the shipping method's
\* threshold, the per-case fee applied is lower than the fee applied at or
\* below the threshold.
C14_DiscountedFeeIsLower ==
    (Shipped /\ Gt(priceData.basePrice, shippingMethod.discountThreshold)) =>
        Gt(shippingMethod.feePerCase, shippingPerCase)

\* C14 as amended: above the threshold applyShipping applies discountFee and
\* at or below it feePerCase, whatever their order; the fee applied above
\* the threshold is the lower one exactly when the caller's shipping method
\* has discountFee < feePerCase.
C14_FeeLowerIffMethodSaysSo ==
    Shipped =>
        IF Gt(priceData.basePrice, shippingMethod.discountThreshold)
        THEN /\ shippingPerCase = shippingMethod.discountFee
             /\ Gt(shippingMethod.feePerCase, shippingPerCase)
                    <=> Gt(shippingMethod.feePerCase, shippingMethod.discountFee)
        ELSE shippingPerCase = shippingMethod.feePerCase

C14_Witness ==
    /\ Shipped
    /\ Gt(priceData.basePrice, shippingMethod.discountThreshold)
    /\ shippingMethod.discountFee = Num(1)
    /\ shippingMethod.feePerCase = Num(2)
    /\ shippingPerCase = Num(1)
    /\ shippingCost = Mul(priceData.quantity, Num(1))

PricingDataFields == {"basePrice", "quantity", "discount"}

\* C15: the record calculatePricingData hands to applyShipping has exactly
\* the fields basePrice, quantity and discount, and applyShipping computes
\* its result from these three fields and the shipping method alone: called
\* with no product and no quantity argument it still returns the number
\* they determine.
C15_HandOffRecord ==
    /\ Calculated => DOMAIN priceData = PricingDataFields
    /\ Shipped =>
           /\ DOMAIN priceData = PricingDataFields
           /\ price = Add(Sub(priceData.basePrice, priceData.discount),
                          Mul(priceData.quantity,
                              IF Gt(priceData.basePrice,
                                    shippingMethod.discountThreshold)
                              THEN shippingMethod.discountFee
                              ELSE shippingMethod.feePerCase))
    /\ (call = "applyShipping" /\ pc = "done") =>
           /\ product = undefined
           /\ quantity = undefined
           /\ IsOrdinaryNumber(result)
           /\ result = price

C15_Witness ==
    /\ call = "applyShipping"
    /\ pc = "done"
    /\ product = undefined
    /\ quantity = undefined
    /\ DOMAIN priceData = PricingDataFields
    /\ priceData.quantity = Num(MaxQuantity)
    /\ priceData.discount = Num(1)
    /\ shippingPerCase = Num(1)
    /\ IsOrdinaryNumber(result)

\* C16: in a call of priceOrder the statements run in order: the record is
\* produced by calculatePricingData first, applyShipping then runs once, on
\* that record, and the value returned last is the value applyShipping gave.
C16_PhasesInSequence ==
    [][call = "priceOrder" =>
          /\ pc' # pc =>
                 <<pc, pc'>> \in {<<"start", "L25">>, <<"L25", "L26">>,
                                  <<"L26", "done">>}
          /\ priceData' # priceData =>
                 /\ pc = "start"
                 /\ price = undefined
                 /\ priceData' = calculatePricingData(product, quantity)
          /\ price' # price =>
                 /\ pc = "L25"
                 /\ price = undefined
                 /\ priceData = calculatePricingData(product, quantity)
                 /\ price' = applyShipping(priceData, shippingMethod)
          /\ result' # result =>
                 /\ pc = "L26"
                 /\ price' = price
                 /\ result' = price]_vars

C16_Witness ==
    /\ PriceOrderReturned
    /\ priceData = calculatePricingData(product, quantity)
    /\ price = applyShipping(priceData, shippingMethod)
    /\ result = price
    /\ shippingCost # Zero
    /\ shippingPerCase = shippingMethod.discountFee

\* C17: for a given unit price, quantity and shipping method, the per-case
\* fee applyShipping selects and the shipping cost it adds are the same for
\* every discount threshold and discount rate of the product: the tier is
\* decided on the base price before the discount.
C17_TierIgnoresDiscount ==
    (call = "priceOrder" /\ Shipped) =>
        \A t \in Thresholds, r \in Rates :
            LET other == [product EXCEPT !.discountThreshold = t,
                                         !.discountRate = r]
                pd    == calculatePricingData(other, quantity)
            IN  /\ ShippingPerCase(pd, shippingMethod) = shippingPerCase
                /\ ShippingCost(pd, shippingMethod) = shippingCost

C17_Witness ==
    /\ call = "priceOrder"
    /\ Shipped
    /\ Gt(priceData.basePrice, shippingMethod.discountThreshold)
    /\ ~Gt(Sub(priceData.basePrice, priceData.discount),
           shippingMethod.discountThreshold)
    /\ shippingMethod.discountFee # shippingMethod.feePerCase
    /\ shippingPerCase = shippingMethod.discountFee

\* C18: with a non-negative unit price, threshold and quantity and a rate
\* between 0 and 1, the discount never exceeds the base price, and with
\* non-negative fees the total priceOrder returns is not negative.
C18_DiscountWithinBasePrice ==
    (/\ call = "priceOrder"
     /\ Ge(product.basePrice, Zero)
     /\ Ge(product.discountThreshold, Zero)
     /\ Ge(quantity, Zero)
     /\ Ge(product.discountRate, Zero)
     /\ Ge(Num(1), product.discountRate)) =>
        /\ pc # "start" => Ge(priceData.basePrice, priceData.discount)
        /\ (/\ pc = "done"
            /\ Ge(shippingMethod.discountFee, Zero)
            /\ Ge(shippingMethod.feePerCase, Zero)) => Ge(result, Zero)

C18_Witness ==
    /\ PriceOrderReturned
    /\ product.discountThreshold = Zero
    /\ product.discountRate = Num(1)
    /\ product.basePrice = Num(MaxPrice)
    /\ quantity = Num(MaxQuantity)
    /\ priceData.discount = priceData.basePrice
    /\ shippingPerCase = Zero
    /\ result = Zero

====
